---- MODULE Spec2Model ----
(***************************************************************************)
(* A model of bot-espelhar (src/app.py): the MirrorBot message mirror.     *)
(*                                                                         *)
(*   SpecHtml     entities_to_html, the rich-text transcoder               *)
(*   SpecResolve  MirrorBot._resolve_mappings, the routing-table build     *)
(*   SpecDeliver  MirrorBot._on_message, content filter and delivery pass  *)
(*                                                                         *)
(* A Python str is a sequence of one-character strings, so that indexing,  *)
(* slicing, escaping and joining are computed and not assumed.             *)
(***************************************************************************)
EXTENDS Integers, Sequences, FiniteSets, TLC

VARIABLES
    \* entities_to_html
    text,          \* the text argument
    entities,      \* the entities argument
    out,           \* the list `out` of line 256, before the join
    html_text,     \* the returned string
    hpc,           \* "input" | "done"
    \* MirrorBot fields
    raw_mappings,  \* self.raw_mappings, as the ordered items of the dict
    mappings,      \* self.mappings
    keywords,      \* self.keywords
    delay,         \* self.delay
    \* _resolve_mappings
    resolved,      \* the local dict `resolved`
    rpc,           \* position in _resolve_mappings
    si,            \* index of the current item of raw_mappings
    di,            \* index of the current raw destination
    src_id,        \* the local src_id
    dest_ids,      \* the local dest_ids
    lookups,       \* history: the get_entity calls of this run and their outcomes
    \* _on_message
    msg,           \* the event: message, media, action, entities, chat_id
    dests,         \* the local dests
    i,             \* index of the current destination
    pc,            \* position in _on_message
    trace,         \* history: sends, sleeps and "Mirrored" log lines, in order
    \* start(), the client and the event loop
    spc,           \* position in start()
    handlers,      \* the client's event handlers: the chats of each, in registration order
    iters,         \* iterations of the loop of line 47 begun
    exc,           \* the exception caught at line 70 in this iteration
    sleeping,      \* seconds of the asyncio.sleep start() is suspended in, 0 outside
    cur,           \* the handler call held by msg, dests, i and pc: its event and handler
    parked,        \* the handler calls suspended at an await, and the updates not begun
    inbox          \* the inbound updates that have not arrived yet

hvars == <<text, entities, out, html_text, hpc>>
cvars == <<raw_mappings, mappings, keywords, delay>>
rvars == <<resolved, rpc, si, di, src_id, dest_ids, lookups>>
dvars == <<msg, dests, i, pc, trace>>
svars == <<spc, handlers, iters, exc, sleeping, cur, parked, inbox>>
vars == <<hvars, cvars, rvars, dvars, svars>>

None == "None"

(***************************************************************************)
(* Sequence helpers.                                                       *)
(***************************************************************************)
RECURSIVE Join(_)
\* "".join(parts)
Join(parts) == IF parts = <<>> THEN <<>> ELSE Head(parts) \o Join(Tail(parts))

\* s[a:b] of Python, 0-based, for 0 <= a <= b <= len(s)
Slice(s, a, b) == SubSeq(s, a + 1, b)

(***************************************************************************)
(* html.escape (quote=True), character by character.                       *)
(***************************************************************************)
html_escape_char_identity(c) == <<c>>

html_escape_char(c) ==
    CASE c = "&" -> <<"&", "a", "m", "p", ";">>
      [] c = "<" -> <<"&", "l", "t", ";">>
      [] c = ">" -> <<"&", "g", "t", ";">>
      [] c = "\"" -> <<"&", "q", "u", "o", "t", ";">>
      [] c = "'" -> <<"&", "#", "x", "2", "7", ";">>
      [] OTHER -> <<c>>

html_escape(s) == Join([k \in DOMAIN s |-> html_escape_char(s[k])])

(***************************************************************************)
(* str(int(n)) for n >= 0.                                                 *)
(***************************************************************************)
DigitChar(d) == <<"0", "1", "2", "3", "4", "5", "6", "7", "8", "9">>[d + 1]

RECURSIVE IntToStr(_)
IntToStr(n) == IF n < 10 THEN <<DigitChar(n)>>
               ELSE IntToStr(n \div 10) \o <<DigitChar(n % 10)>>

(***************************************************************************)
(* entities_to_html, lines 198-265.                                        *)
(***************************************************************************)
TagB == <<"<", "b", ">">>
TagBEnd == <<"<", "/", "b", ">">>
TagI == <<"<", "i", ">">>
TagIEnd == <<"<", "/", "i", ">">>
TagCode == <<"<", "c", "o", "d", "e", ">">>
TagCodeEnd == <<"<", "/", "c", "o", "d", "e", ">">>
TagPre == <<"<", "p", "r", "e", ">">>
TagPreEnd == <<"<", "/", "p", "r", "e", ">">>
TagU == <<"<", "u", ">">>
TagUEnd == <<"<", "/", "u", ">">>
TagS == <<"<", "s", ">">>
TagSEnd == <<"<", "/", "s", ">">>
TagSpoiler == <<"<", "t", "g", "-", "s", "p", "o", "i", "l", "e", "r", ">">>
TagSpoilerEnd == <<"<", "/", "t", "g", "-", "s", "p", "o", "i", "l", "e", "r", ">">>
TagAHref == <<"<", "a", " ", "h", "r", "e", "f", "=", "\"">>
TagAHrefClose == <<"\"", ">">>
TagAEnd == <<"<", "/", "a", ">">>
TgUserUri == <<"t", "g", ":", "/", "/", "u", "s", "e", "r", "?", "i", "d", "=">>

\* line 232: getattr(ent, "user_id", None) or getattr(getattr(ent, "user", None), "id", None)
UserIdOf(ent) ==
    IF ent.user_id # 0 THEN ent.user_id ELSE ent.user

\* as EntityTags, with a bare anchor for a mention without a user id and code
\* tags for a class the function does not know
EntityTagsNoSkip(ent) ==
    CASE ent.cls = "MessageEntityBold" -> <<TRUE, TagB, TagBEnd>>
      [] ent.cls = "MessageEntityItalic" -> <<TRUE, TagI, TagIEnd>>
      [] ent.cls = "MessageEntityTextUrl" ->
            <<TRUE, TagAHref \o html_escape(ent.url) \o TagAHrefClose, TagAEnd>>
      [] ent.cls = "MessageEntityUrl" -> <<TRUE, TagAHref, TagAEnd>>
      [] ent.cls \in {"MessageEntityMentionName", "MessageEntityTextMention"} ->
            <<TRUE, TagAHref \o TgUserUri \o IntToStr(UserIdOf(ent)) \o TagAHrefClose,
              TagAEnd>>
      [] OTHER -> <<TRUE, TagCode, TagCodeEnd>>

\* lines 212-244: <<recognised, start_tag, end_tag>> of one entity
EntityTags(ent) ==
    CASE ent.cls = "MessageEntityBold" -> <<TRUE, TagB, TagBEnd>>
      [] ent.cls = "MessageEntityItalic" -> <<TRUE, TagI, TagIEnd>>
      [] ent.cls = "MessageEntityCode" -> <<TRUE, TagCode, TagCodeEnd>>
      [] ent.cls = "MessageEntityPre" -> <<TRUE, TagPre, TagPreEnd>>
      [] ent.cls = "MessageEntityTextUrl" ->
            <<TRUE, TagAHref \o html_escape(ent.url) \o TagAHrefClose, TagAEnd>>
      [] ent.cls = "MessageEntityUrl" -> <<TRUE, TagAHref, TagAEnd>>
      [] ent.cls \in {"MessageEntityMentionName", "MessageEntityTextMention"} ->
            IF UserIdOf(ent) # 0
            THEN <<TRUE, TagAHref \o TgUserUri \o IntToStr(UserIdOf(ent)) \o TagAHrefClose,
                   TagAEnd>>
            ELSE <<TRUE, <<>>, <<>>>>
      [] ent.cls = "MessageEntityUnderline" -> <<TRUE, TagU, TagUEnd>>
      [] ent.cls = "MessageEntityStrike" -> <<TRUE, TagS, TagSEnd>>
      [] ent.cls = "MessageEntitySpoiler" -> <<TRUE, TagSpoiler, TagSpoilerEnd>>
      [] OTHER -> <<FALSE, <<>>, <<>>>>

RECURSIVE InsertsEndOffByOne(_)
\* as Inserts, with the end tag one position late
InsertsEndOffByOne(ents) ==
    IF ents = <<>> THEN <<>>
    ELSE LET ent == Head(ents)
             tags == EntityTags(ent)
         IN (IF tags[1]
             THEN << <<ent.offset, tags[2]>>, <<ent.offset + ent.length + 1, tags[3]>> >>
             ELSE <<>>) \o InsertsEndOffByOne(Tail(ents))

RECURSIVE Inserts(_)
\* lines 207-247: the list `inserts` of (position, tag) pairs
Inserts(ents) ==
    IF ents = <<>> THEN <<>>
    ELSE LET ent == Head(ents)
             tags == EntityTags(ent)
         IN (IF tags[1]
             THEN << <<ent.offset, tags[2]>>, <<ent.offset + ent.length, tags[3]>> >>
             ELSE <<>>) \o Inserts(Tail(ents))

RECURSIVE TagsAt(_, _)
\* lines 252-254: inserts_by_pos[pos], the tags of one position in insertion order
TagsAt(inserts, pos) ==
    IF inserts = <<>> THEN <<>>
    ELSE (IF Head(inserts)[1] = pos THEN <<Head(inserts)[2]>> ELSE <<>>)
         \o TagsAt(Tail(inserts), pos)

RECURSIVE Walk(_, _, _)
\* lines 256-263: the loop over range(len(text) + 1), from position p on
Walk(txt, inserts, p) ==
    IF p > Len(txt) THEN <<>>
    ELSE TagsAt(inserts, p)
         \o (IF p < Len(txt) THEN <<html_escape_char(txt[p + 1])>> ELSE <<>>)
         \o Walk(txt, inserts, p + 1)

\* the list `out` at line 265 (the early return of line 205 builds no list)
OutList(txt, ents) == IF ents = <<>> THEN <<>> ELSE Walk(txt, Inserts(ents), 0)

entities_to_html(txt, ents) ==
    IF ents = <<>> THEN html_escape(txt) ELSE Join(OutList(txt, ents))

(***************************************************************************)
(* The inputs of the transcoder.                                           *)
(***************************************************************************)
MaxLen == 2

Alphabet == {"a", "<", "&"}

Texts == UNION {[1..n -> Alphabet] : n \in 0..MaxLen}

Entity(cls, off, ln, url, uid) ==
    [cls |-> cls, offset |-> off, length |-> ln, url |-> url, user_id |-> uid, user |-> 0]

\* class and payload of the entities drawn; MessageEntityHashtag is a class the
\* function does not know
EntityKinds ==
    { <<"MessageEntityBold", <<>>, 0>>,
      <<"MessageEntityItalic", <<>>, 0>>,
      <<"MessageEntityTextUrl", <<"u", "&">>, 0>>,
      <<"MessageEntityUrl", <<>>, 0>>,
      <<"MessageEntityMentionName", <<>>, 7>>,
      <<"MessageEntityMentionName", <<>>, 0>>,
      <<"MessageEntityHashtag", <<>>, 0>> }

\* every drawn span lies within the longest text; it is ill-formed for a shorter one
EntitySpans == {sp \in (0..MaxLen) \X (0..MaxLen) : sp[1] + sp[2] <= MaxLen}

EntityChoices ==
    { Entity(k[1], sp[1], sp[2], k[2], k[3]) : k \in EntityKinds, sp \in EntitySpans }

EntityLists ==
    {<<>>} \cup {<<e>> : e \in EntityChoices}
           \cup {<<e, f>> : e \in EntityChoices, f \in EntityChoices}

HtmlIdle ==
    /\ text = <<>> /\ entities = <<>> /\ out = <<>> /\ html_text = <<>>
    /\ hpc = "off"

\* one call of entities_to_html(text, entities)
Transcode ==
    /\ hpc = "input"
    /\ out' = OutList(text, entities)
    /\ html_text' = entities_to_html(text, entities)
    /\ hpc' = "done"
    /\ UNCHANGED <<text, entities>>

(***************************************************************************)
(* Raw identifiers: a Python int, a Python str or None (a JSON null in a   *)
(* destination list).                                                      *)
(***************************************************************************)
RawInt(n) == [k |-> "int", n |-> n, s |-> <<>>]
RawStr(s) == [k |-> "str", n |-> 0, s |-> s]
RawNone == [k |-> "none", n |-> 0, s |-> <<>>]

AsciiDigits == {"0", "1", "2", "3", "4", "5", "6", "7", "8", "9"}

\* SUPERSCRIPT TWO (U+00B2), one character
Sup2 == "^2"

\* the characters str.isdigit accepts: the decimal digits and digit-like characters
\* such as SUPERSCRIPT TWO, which int() rejects
DigitLike == AsciiDigits \cup {Sup2}

DigitValue(c) == CHOOSE d \in 0..9 : DigitChar(d) = c

\* str.isdigit
str_isdigit(s) == Len(s) > 0 /\ \A k \in DOMAIN s : s[k] \in DigitLike

\* the test of lines 159, 175 and 282: value.isdigit() or
\* (value.startswith("-") and value[1:].isdigit())
LooksNumeric(s) ==
    \/ str_isdigit(s)
    \/ (Len(s) > 0 /\ s[1] = "-" /\ str_isdigit(Tail(s)))

RECURSIVE DigitsToNat(_)
DigitsToNat(s) ==
    IF s = <<>> THEN 0 ELSE 10 * DigitsToNat(SubSeq(s, 1, Len(s) - 1)) + DigitValue(s[Len(s)])

\* int(s) of a str that passed LooksNumeric: <<"ok", n>> or <<"raise", 0>> (ValueError)
str_to_int(s) ==
    LET neg == s[1] = "-"
        digits == IF neg THEN Tail(s) ELSE s
    IN IF \A k \in DOMAIN digits : digits[k] \in AsciiDigits
       THEN <<"ok", IF neg THEN 0 - DigitsToNat(digits) ELSE DigitsToNat(digits)>>
       ELSE <<"raise", 0>>

\* normalize_id, lines 277-286: <<"ok", value>> or <<"raise", value>>
normalize_id(value) ==
    IF value.k = "int" THEN <<"ok", value>>
    ELSE IF value.k = "str"
    THEN IF LooksNumeric(value.s)
         THEN LET r == str_to_int(value.s)
              IN IF r[1] = "ok" THEN <<"ok", RawInt(r[2])>> ELSE <<"raise", value>>
         ELSE <<"ok", value>>
    ELSE <<"ok", value>>

\* int(value) of lines 186 and 191: <<"ok", n>> or <<"raise", 0>>
py_int(value) ==
    IF value.k = "int" THEN <<"ok", value.n>>
    ELSE IF value.k = "str" /\ LooksNumeric(value.s) THEN str_to_int(value.s)
    ELSE <<"raise", 0>>

\* the condition of lines 159 and 175: a str that does not look numeric
NeedsLookup(value) == value.k = "str" /\ ~LooksNumeric(value.s)

(***************************************************************************)
(* The directory behind client.get_entity: every name has one id; a call   *)
(* resolves to it, times out after 10 s, or fails.                         *)
(***************************************************************************)
ChannelA == <<"@", "A">>
ChannelB == <<"@", "B">>
ChannelC == <<"@", "C">>

Directory(name) ==
    CASE name = ChannelA -> 555
      [] name = ChannelB -> 777
      [] OTHER -> 888

LookupOutcomes == {"ok", "timeout", "error"}

EmptyMap == [key \in {} |-> <<>>]

\* d[key] = value on a dict
Put(d, key, value) == [j \in DOMAIN d \cup {key} |-> IF j = key THEN value ELSE d[j]]

(***************************************************************************)
(* MirrorBot._resolve_mappings, lines 145-195.  One action per stretch of  *)
(* code between two awaits.                                                *)
(***************************************************************************)
RawSrc == raw_mappings[si][1]
RawDests == raw_mappings[si][2]

Looked(s, d, name, res) == [s |-> s, d |-> d, name |-> name, res |-> res]

\* line 147: the locals of a call of _resolve_mappings
ResolveEntry ==
    /\ resolved' = EmptyMap
    /\ si' = 1
    /\ di' = 0
    /\ src_id' = RawNone
    /\ dest_ids' = <<>>
    /\ lookups' = <<>>
    /\ rpc' = "source"

\* a call of _resolve_mappings, the first or a later one
ResolveStart ==
    /\ rpc \in {"idle", "done", "raised"}
    /\ ResolveEntry
    /\ UNCHANGED <<cvars, hvars, dvars, svars>>

\* lines 148-161: the next item; normalize the source, up to the await of get_entity
NextSource ==
    /\ rpc = "source"
    /\ si <= Len(raw_mappings)
    /\ LET r == normalize_id(RawSrc)
           src_norm == IF r[1] = "ok" THEN r[2] ELSE RawSrc
       IN /\ src_id' = src_norm
          /\ dest_ids' = <<>>
          /\ IF NeedsLookup(src_norm)
             THEN rpc' = "src_lookup" /\ di' = 0
             ELSE rpc' = "dest" /\ di' = 1
    /\ UNCHANGED <<resolved, si, lookups, cvars, hvars, dvars, svars>>

\* lines 161-169: get_entity(src_norm) returns, times out or raises
SourceLookup(res) ==
    /\ rpc = "src_lookup"
    /\ lookups' = Append(lookups, Looked(si, 0, src_id.s, res))
    /\ IF res = "ok"
       THEN /\ src_id' = RawInt(Directory(src_id.s))
            /\ di' = 1
            /\ rpc' = "dest"
            /\ si' = si
       ELSE /\ si' = si + 1
            /\ rpc' = "source"
            /\ UNCHANGED <<src_id, di>>
    /\ UNCHANGED <<resolved, dest_ids, cvars, hvars, dvars, svars>>

\* lines 178 and 186: dest_ids.append(id)
AppendDest(ids, id) == Append(ids, id)

\* lines 172-188: the next raw destination, up to the await of get_entity
NextDest ==
    /\ rpc = "dest"
    /\ di <= Len(RawDests)
    /\ LET r == normalize_id(RawDests[di])
           d_norm == r[2]
       IN IF r[1] = "raise"
          THEN \* line 173 is outside every try: the ValueError leaves the function
               rpc' = "raised" /\ UNCHANGED <<di, dest_ids>>
          ELSE IF NeedsLookup(d_norm)
          THEN rpc' = "dest_lookup" /\ UNCHANGED <<di, dest_ids>>
          ELSE /\ dest_ids' = (IF py_int(d_norm)[1] = "ok"
                               THEN AppendDest(dest_ids, py_int(d_norm)[2])
                               ELSE dest_ids)
               /\ di' = di + 1
               /\ rpc' = "dest"
    /\ UNCHANGED <<resolved, si, src_id, lookups, cvars, hvars, dvars, svars>>

\* lines 177-183: get_entity(d_norm) returns, times out or raises
DestLookup(res) ==
    /\ rpc = "dest_lookup"
    /\ lookups' = Append(lookups, Looked(si, di, RawDests[di].s, res))
    /\ dest_ids' = (IF res = "ok"
                    THEN AppendDest(dest_ids, Directory(RawDests[di].s))
                    ELSE dest_ids)
    /\ di' = di + 1
    /\ rpc' = "dest"
    /\ UNCHANGED <<resolved, si, src_id, cvars, hvars, dvars, svars>>

KeepSourceAlways(ids) == TRUE

\* line 190: if dest_ids
KeepSource(ids) == ids # <<>>

StoreResolvedFirstWins(d, key, value) == IF key \in DOMAIN d THEN d ELSE Put(d, key, value)

\* the assignment of line 191
StoreResolved(d, key, value) == Put(d, key, value)

\* lines 190-193: after the last destination of a source
StoreSource ==
    /\ rpc = "dest"
    /\ di > Len(RawDests)
    /\ IF KeepSource(dest_ids)
       THEN IF py_int(src_id)[1] = "ok"
            THEN /\ resolved' = StoreResolved(resolved, py_int(src_id)[2], dest_ids)
                 /\ si' = si + 1
                 /\ rpc' = "source"
            ELSE \* int(src_id) of line 191 raises and leaves the function
                 rpc' = "raised" /\ UNCHANGED <<resolved, si>>
       ELSE /\ si' = si + 1
            /\ rpc' = "source"
            /\ UNCHANGED resolved
    /\ UNCHANGED <<di, src_id, dest_ids, lookups, cvars, hvars, dvars, svars>>

\* as FinishResolve, but the table is published after every source
FinishResolveEarly ==
    /\ rpc = "source"
    /\ mappings' = resolved
    /\ rpc' = IF si > Len(raw_mappings) THEN "done" ELSE rpc
    /\ UNCHANGED <<raw_mappings, keywords, delay, resolved, si, di, src_id, dest_ids,
                   lookups, hvars, dvars, svars>>

\* line 195: self.mappings = resolved
FinishResolve ==
    /\ rpc = "source"
    /\ si > Len(raw_mappings)
    /\ mappings' = resolved
    /\ rpc' = "done"
    /\ UNCHANGED <<raw_mappings, keywords, delay, resolved, si, di, src_id, dest_ids,
                   lookups, hvars, dvars, svars>>

ResolveIdle ==
    /\ resolved = EmptyMap /\ rpc = "off" /\ si = 0 /\ di = 0
    /\ src_id = RawNone /\ dest_ids = <<>> /\ lookups = <<>>

(***************************************************************************)
(* The raw mappings drawn: config.json as the __main__ block reads it      *)
(* (lines 297-319), so a dict with distinct keys and list values.          *)
(***************************************************************************)
MaxSources == 2

NumericDest == RawStr(<<"-", "1", "0", "0", "1", "2", "3">>)

RawSources == {RawInt(555), RawStr(<<"5", "5", "5">>), RawStr(ChannelA), RawStr(<<Sup2>>)}

RawDestLists ==
    { <<>>,
      <<RawStr(ChannelB)>>,
      <<NumericDest, RawStr(ChannelB)>>,
      <<RawStr(ChannelB), RawStr(ChannelC)>>,
      <<RawNone, RawInt(42)>>,
      <<RawStr(<<Sup2>>)>>,
      <<RawStr(ChannelB), RawStr(<<Sup2>>)>> }

RawMappings ==
    { m \in UNION {[1..n -> RawSources \X RawDestLists] : n \in 0..MaxSources} :
        \A a, b \in DOMAIN m : a # b => m[a][1] # m[b][1] }

ConfigIdle == raw_mappings = <<>> /\ mappings = EmptyMap /\ keywords = <<>> /\ delay = 0

DeliverIdle == msg = None /\ dests = <<>> /\ i = 0 /\ pc = "off" /\ trace = <<>>

NoException == [kind |-> "none", secs |-> 0]

\* the handler call of event ev made for handler number h
Call(ev, h) == [ev |-> ev, h |-> h]

\* start() is not running and no update is in flight
SuperviseIdle ==
    /\ spc = "off" /\ handlers = <<>> /\ iters = 0
    /\ exc = NoException /\ sleeping = 0
    /\ cur = Call(0, 0) /\ parked = {} /\ inbox = <<>>

ResolveInit ==
    /\ raw_mappings \in RawMappings
    /\ mappings = EmptyMap
    /\ keywords = <<>> /\ delay = 0
    /\ resolved = EmptyMap /\ rpc = "idle" /\ si = 0 /\ di = 0
    /\ src_id = RawNone /\ dest_ids = <<>> /\ lookups = <<>>
    /\ HtmlIdle
    /\ DeliverIdle
    /\ SuperviseIdle

ResolveNext ==
    \/ ResolveStart
    \/ NextSource
    \/ \E res \in LookupOutcomes : SourceLookup(res)
    \/ NextDest
    \/ \E res \in LookupOutcomes : DestLookup(res)
    \/ StoreSource
    \/ FinishResolve

SpecResolve == ResolveInit /\ [][ResolveNext]_vars

HtmlNext == Transcode /\ UNCHANGED <<cvars, rvars, dvars, svars>>

\* every text and entity list drawn, before the call
HtmlInit ==
    /\ text \in Texts
    /\ entities \in EntityLists
    /\ out = <<>>
    /\ html_text = <<>>
    /\ hpc = "input"
    /\ ConfigIdle
    /\ ResolveIdle
    /\ DeliverIdle
    /\ SuperviseIdle

SpecHtml == HtmlInit /\ [][HtmlNext]_vars

(***************************************************************************)
(* str methods used by the content filter.                                 *)
(***************************************************************************)
py_lower_char_identity(c) == c

\* str.lower on one character
py_lower_char(c) ==
    CASE c = "S" -> "s"
      [] c = "A" -> "a"
      [] c = "X" -> "x"
      [] OTHER -> c

py_lower(s) == [k \in DOMAIN s |-> py_lower_char(s[k])]

Whitespace == {" ", "\t", "\n"}

RECURSIVE py_lstrip(_)
py_lstrip(s) == IF s # <<>> /\ Head(s) \in Whitespace THEN py_lstrip(Tail(s)) ELSE s

RECURSIVE py_rstrip(_)
py_rstrip(s) ==
    IF s # <<>> /\ s[Len(s)] \in Whitespace THEN py_rstrip(SubSeq(s, 1, Len(s) - 1)) ELSE s

\* str.strip
py_strip(s) == py_rstrip(py_lstrip(s))

\* k in s
py_in(k, s) == \E a \in 0..(Len(s) - Len(k)) : Slice(s, a, a + Len(k)) = k

\* line 33: [k.lower() for k in keywords] if keywords else []
InitKeywords(raw) == IF raw = <<>> THEN <<>> ELSE [j \in DOMAIN raw |-> py_lower(raw[j])]

(***************************************************************************)
(* MirrorBot._on_message, lines 81-143.                                    *)
(***************************************************************************)
\* msg.message or ""  (line 90)
TextOf(m) == IF m.has_message THEN m.message ELSE <<>>

\* lines 85-97: the message passes the three return statements, in the code's
\* order: service action, empty body without media, keywords
PassesFilter(m, kws) ==
    IF m.action THEN FALSE
    ELSE IF (~m.has_message \/ m.message = <<>> \/ py_strip(m.message) = <<>>) /\ ~m.media
    THEN FALSE
    ELSE IF kws # <<>>
    THEN \E j \in DOMAIN kws : py_in(kws[j], py_lower(TextOf(m)))
    ELSE TRUE

\* lines 109-126: the first send call of a destination
SendKind(m) ==
    IF m.media THEN "file" ELSE IF m.entities THEN "html" ELSE "text"

\* line 134, as line 73: exc.seconds if hasattr(exc, "seconds") else 60
FloodWaitOf(o) == IF o.has_seconds THEN o.secs ELSE 60

\* line 136: wait + 5
BackoffSeconds(o) == FloodWaitOf(o) + 5

Event(ev, idx, kind, res, secs) ==
    [ev |-> ev, idx |-> idx, dest |-> dests[idx], kind |-> kind, res |-> res, secs |-> secs,
     call |-> cur]

SendEvent(kind, o) == Event("send", i, kind, o.res, o.secs)

CaughtInLoopOnlyForbidden(res) == res = "forbidden"

\* lines 137-140: ChatWriteForbiddenError and every other Exception are caught
\* inside the loop body, so the loop goes on
CaughtInLoop(res) == TRUE

PacesUnlessZero(d) == d # 0

\* line 130: self.delay and self.delay > 0
Paces(d) == d # 0 /\ d > 0

CaughtByFallbackNever(res) == FALSE

\* line 122: except Exception, around the markup send of line 121
CaughtByFallback(res) == res # "ok"

\* the loop of line 107 moves to the next destination, or ends
Advance ==
    /\ i' = i + 1
    /\ pc' = IF i + 1 > Len(dests) THEN "done" ELSE "send"

\* lines 128-140: what follows a send call that is not the markup send of line 121
AfterSend(kind, o) ==
    IF o.res = "ok"
    THEN IF Paces(delay)
         THEN /\ trace' = trace \o <<SendEvent(kind, o), Event("mirrored", i, kind, "ok", 0),
                                     Event("sleep", i, "pace", "ok", delay)>>
              /\ pc' = "pace"
              /\ i' = i
         ELSE /\ trace' = trace \o <<SendEvent(kind, o), Event("mirrored", i, kind, "ok", 0)>>
              /\ Advance
    ELSE IF o.res = "flood"
    THEN /\ trace' = trace \o <<SendEvent(kind, o),
                                Event("sleep", i, "backoff", "ok", BackoffSeconds(o))>>
         /\ pc' = "backoff"
         /\ i' = i
    ELSE /\ trace' = Append(trace, SendEvent(kind, o))
         /\ IF CaughtInLoop(o.res)
            THEN Advance
            ELSE \* the except of line 142 ends the pass
                 pc' = "done" /\ i' = i

\* lines 82-97: the event arrives and the content filter runs
OnMessage ==
    /\ pc = "idle"
    /\ pc' = IF PassesFilter(msg, keywords) THEN "accepted" ELSE "rejected"
    /\ UNCHANGED <<msg, dests, i, trace, cvars, rvars, hvars, svars>>

\* lines 101-105: the destinations of the source chat
Lookup ==
    /\ pc = "accepted"
    /\ dests' = IF msg.chat_id \in DOMAIN mappings THEN mappings[msg.chat_id] ELSE <<>>
    /\ IF dests' = <<>>
       THEN pc' = "no_dest" /\ i' = i
       ELSE pc' = "send" /\ i' = 1
    /\ UNCHANGED <<msg, trace, cvars, rvars, hvars, svars>>

\* line 120: entities_to_html raises; the except of line 122 takes over
ConvertFails ==
    /\ pc = "send"
    /\ SendKind(msg) = "html"
    /\ trace' = Append(trace, Event("convert_failed", i, "html", "error", 0))
    /\ pc' = "fallback"
    /\ UNCHANGED <<msg, dests, i, cvars, rvars, hvars, svars>>

\* lines 110, 121 and 126: the first send call to dests[i] returns or raises
Send(o) ==
    /\ pc = "send"
    /\ IF SendKind(msg) = "html" /\ CaughtByFallback(o.res)
       THEN \* line 122: except Exception, whatever was raised
            /\ trace' = Append(trace, SendEvent("html", o))
            /\ pc' = "fallback"
            /\ i' = i
       ELSE AfterSend(SendKind(msg), o)
    /\ UNCHANGED <<msg, dests, cvars, rvars, hvars, svars>>

\* line 124: the plain-text send of the fallback returns or raises
SendFallback(o) ==
    /\ pc = "fallback"
    /\ AfterSend("fallback", o)
    /\ UNCHANGED <<msg, dests, cvars, rvars, hvars, svars>>

\* line 131: the pacing sleep ends
PaceDone ==
    /\ pc = "pace"
    /\ Advance
    /\ UNCHANGED <<msg, dests, trace, cvars, rvars, hvars, svars>>

\* line 136: the backoff sleep ends; nothing leaves the loop
BackoffDone ==
    /\ pc = "backoff"
    /\ Advance
    /\ UNCHANGED <<msg, dests, trace, cvars, rvars, hvars, svars>>

(***************************************************************************)
(* The events, outcomes and configurations drawn.                          *)
(***************************************************************************)
MaxDests == 2

FloodSeconds == {3, 30}

Outcome(res, secs) == [res |-> res, secs |-> secs, has_seconds |-> TRUE]

SendOutcomes ==
    {Outcome("ok", 0), Outcome("forbidden", 0), Outcome("error", 0)}
    \cup {Outcome("flood", w) : w \in FloodSeconds}

Message(action, has_message, message, media, ents, chat_id) ==
    [action |-> action, has_message |-> has_message, message |-> message,
     media |-> media, entities |-> ents, chat_id |-> chat_id]

\* the destinations 11, 12, ... of source chat 555
DestSeq(n) == [k \in 1..n |-> 10 + k]

Table(n) == [key \in {555} |-> DestSeq(n)]

DeliverNext ==
    \/ OnMessage
    \/ Lookup
    \/ ConvertFails
    \/ \E o \in SendOutcomes : Send(o)
    \/ \E o \in SendOutcomes : SendFallback(o)
    \/ PaceDone
    \/ BackoffDone

\* delivery passes: one accepted message, every list length, every outcome
DeliverInit ==
    /\ raw_mappings = <<>>
    /\ mappings \in {Table(n) : n \in 1..MaxDests}
    /\ keywords = <<>>
    /\ delay \in {0 - 1, 0, 2}
    /\ msg \in {Message(FALSE, TRUE, <<"s">>, media, ents, chat) :
                  media \in BOOLEAN, ents \in BOOLEAN, chat \in {555, 666}}
    /\ dests = <<>> /\ i = 0 /\ pc = "idle" /\ trace = <<>>
    /\ ResolveIdle
    /\ HtmlIdle
    /\ spc = "off" /\ handlers = <<>> /\ iters = 0
    /\ exc = NoException /\ sleeping = 0
    /\ cur = Call(1, 1) /\ parked = {} /\ inbox = <<>>

SpecDeliver == DeliverInit /\ [][DeliverNext]_vars

BodyAlphabet == {"s", "S", " "}

Bodies == UNION {[1..n -> BodyAlphabet] : n \in 0..MaxLen}

RawKeywordLists ==
    { <<>>,
      << <<"S">> >>,
      << <<"s", "S">> >>,
      << <<>> >>,
      << <<"x">>, <<"s">> >> }

\* the content filter: every body, keyword list, media and service flag
FilterInit ==
    /\ raw_mappings = <<>>
    /\ mappings = Table(1)
    /\ keywords \in {InitKeywords(raw) : raw \in RawKeywordLists}
    /\ delay \in {0, 2}
    /\ msg \in {Message(action, TRUE, body, media, ents, 555) :
                  action \in BOOLEAN, body \in Bodies, media \in BOOLEAN, ents \in BOOLEAN}
               \cup {Message(action, FALSE, <<>>, media, FALSE, 555) :
                       action \in BOOLEAN, media \in BOOLEAN}
    /\ dests = <<>> /\ i = 0 /\ pc = "idle" /\ trace = <<>>
    /\ ResolveIdle
    /\ HtmlIdle
    /\ spc = "off" /\ handlers = <<>> /\ iters = 0
    /\ exc = NoException /\ sleeping = 0
    /\ cur = Call(1, 1) /\ parked = {} /\ inbox = <<>>

SpecFilter == FilterInit /\ [][DeliverNext]_vars

(***************************************************************************)
(* MirrorBot.start, lines 45-79, over the client of line 43.  The client   *)
(* is built with its defaults: it keeps every handler given to client.on,  *)
(* in registration order, and it starts one task for each inbound update,  *)
(* which calls in turn every handler whose chats hold the chat of the      *)
(* update.  A task runs until its next await; the tasks suspended at an    *)
(* await are in `parked`, the one that runs is in msg, dests, i and pc.    *)
(***************************************************************************)
MaxIters == 2

RetrySeconds == 5

Sleeps == {"empty_sleep", "flood_sleep", "error_sleep"}

CaughtByStartAll(kind) == TRUE

\* line 70: except Exception; a CancelledError is not an Exception
CaughtByStart(kind) == kind # "cancel"

SupervisorBackoffNoMargin(o) == FloodWaitOf(o)

\* lines 73-75: wait + 5
SupervisorBackoff(o) == FloodWaitOf(o) + 5

\* lines 70-79: the except clause, up to its sleep
Caught(o) ==
    /\ exc' = [kind |-> o.res, secs |-> o.secs]
    /\ IF o.res = "flood"
       THEN spc' = "flood_sleep" /\ sleeping' = SupervisorBackoff(o)
       ELSE spc' = "error_sleep" /\ sleeping' = RetrySeconds

\* line 49: client.start() returns or raises; when it returns, lines 50-53 and
\* 147 run up to the first await of _resolve_mappings
Connect(o) ==
    /\ spc = "connect"
    /\ iters < MaxIters
    /\ iters' = iters + 1
    /\ IF o.res = "ok"
       THEN /\ spc' = "resolve"
            /\ ResolveEntry
            /\ UNCHANGED <<exc, sleeping>>
       ELSE /\ Caught(o)
            /\ UNCHANGED rvars
    /\ UNCHANGED <<handlers, cur, parked, inbox, cvars, hvars, dvars>>

\* line 62: client.on adds the handler to those the client has
Register(hs, chats) == Append(hs, chats)

\* lines 55-68: _resolve_mappings has returned; sleep on an empty table,
\* otherwise register the handler and wait in run_until_disconnected
Subscribe ==
    /\ spc = "resolve"
    /\ rpc = "done"
    /\ IF DOMAIN mappings = {}
       THEN /\ spc' = "empty_sleep"
            /\ sleeping' = RetrySeconds
            /\ UNCHANGED handlers
       ELSE /\ spc' = "listen"
            /\ handlers' = Register(handlers, DOMAIN mappings)
            /\ UNCHANGED sleeping
    /\ UNCHANGED <<iters, exc, cur, parked, inbox, cvars, rvars, hvars, dvars>>

\* line 53: _resolve_mappings raised (line 173 or 191); line 70 catches it
ResolveRaised ==
    /\ spc = "resolve"
    /\ rpc = "raised"
    /\ Caught(Outcome("error", 0))
    /\ UNCHANGED <<handlers, iters, cur, parked, inbox, cvars, rvars, hvars, dvars>>

\* line 68: run_until_disconnected returns or raises
Disconnected(o) ==
    /\ spc = "listen"
    /\ IF o.res = "ok"
       THEN spc' = "connect" /\ UNCHANGED <<exc, sleeping>>
       ELSE Caught(o)
    /\ UNCHANGED <<handlers, iters, cur, parked, inbox, cvars, rvars, hvars, dvars>>

\* lines 60 and 76: continue; line 79 is the end of the loop body
AfterSleep(state) == "connect"

\* lines 59, 75 and 79: the sleep is over
WakeUp ==
    /\ spc \in Sleeps
    /\ spc' = AfterSleep(spc)
    /\ sleeping' = 0
    /\ exc' = NoException
    /\ UNCHANGED <<handlers, iters, cur, parked, inbox, cvars, rvars, hvars, dvars>>

(***************************************************************************)
(* The tasks of the event loop.                                            *)
(***************************************************************************)
\* the positions of _on_message at which it is suspended at an await
AwaitPoints == {"send", "fallback", "pace", "backoff"}

\* the positions at which a handler call has returned, or none was made yet
Returned == {"update", "done", "rejected", "no_dest"}

Update(id, m) == [id |-> id, msg |-> m]

\* the task of an update, when it does not run
Task(call, m, ds, idx, at) ==
    [ev |-> call.ev, h |-> call.h, msg |-> m, dests |-> ds, i |-> idx, pc |-> at]

\* an update arrives while the client is connected: the client starts its task
Arrive ==
    /\ spc \notin {"off", "stopped"}
    /\ inbox # <<>>
    /\ parked' = parked \cup {Task(Call(Head(inbox).id, 0), Head(inbox).msg, <<>>, 0, "update")}
    /\ inbox' = Tail(inbox)
    /\ UNCHANGED <<spc, handlers, iters, exc, sleeping, cur, cvars, rvars, hvars, dvars>>

\* the event loop runs a task that was suspended or has not begun: no task
\* runs, or the one that runs has reached an await and is suspended
Resume ==
    /\ spc # "stopped"
    /\ pc \in AwaitPoints \cup {"off"}
    /\ \E t \in parked :
          /\ parked' = (parked \ {t})
                       \cup (IF pc = "off" THEN {} ELSE {Task(cur, msg, dests, i, pc)})
          /\ cur' = Call(t.ev, t.h)
          /\ msg' = t.msg
          /\ dests' = t.dests
          /\ i' = t.i
          /\ pc' = t.pc
    /\ UNCHANGED <<trace, spc, handlers, iters, exc, sleeping, inbox, cvars, rvars, hvars>>

\* the handlers after number h whose chats hold the chat: events.NewMessage(chats=...)
Matching(h, chat) == {k \in DOMAIN handlers : k > h /\ chat \in handlers[k]}

\* lines 63-64: the task calls the next handler that matches the update, which
\* calls _on_message; after the last one the task ends
NextHandler ==
    /\ cur.ev # 0
    /\ pc \in Returned
    /\ IF Matching(cur.h, msg.chat_id) # {}
       THEN /\ cur' = Call(cur.ev, CHOOSE k \in Matching(cur.h, msg.chat_id) :
                                      \A j \in Matching(cur.h, msg.chat_id) : k <= j)
            /\ pc' = "idle"
            /\ dests' = <<>>
            /\ i' = 0
       ELSE /\ cur' = Call(0, 0)
            /\ pc' = "off"
            /\ UNCHANGED <<dests, i>>
    /\ UNCHANGED <<msg, trace, spc, handlers, iters, exc, sleeping, parked, inbox,
                   cvars, rvars, hvars>>

\* lines 335-338: the process is interrupted; asyncio.run cancels start() and
\* every other task at its await (taken as one step).  From Python 3.8 on a
\* CancelledError is not an Exception, so no except clause of start(), of
\* _resolve_mappings or of _on_message catches it.
Shutdown ==
    /\ spc \notin {"off", "stopped"}
    /\ exc.kind # "cancel"
    /\ IF CaughtByStart("cancel")
       THEN Caught(Outcome("cancel", 0))
       ELSE /\ spc' = "stopped"
            /\ sleeping' = 0
            /\ exc' = [kind |-> "cancel", secs |-> 0]
    /\ rpc' = IF rpc \in {"source", "src_lookup", "dest", "dest_lookup"} THEN "cancelled" ELSE rpc
    /\ pc' = IF pc = "off" THEN "off" ELSE "cancelled"
    /\ cur' = Call(0, 0)
    /\ parked' = {}
    /\ UNCHANGED <<handlers, iters, inbox, msg, dests, i, trace, cvars, hvars,
                   resolved, si, di, src_id, dest_ids, lookups>>

(***************************************************************************)
(* The supervised runs: a configuration, and one update that arrives at    *)
(* any moment.                                                             *)
(***************************************************************************)
\* what the client's calls do in these runs: return, raise, or raise FloodWaitError
ClientOutcomes == {Outcome("ok", 0), Outcome("error", 0), Outcome("flood", 3)}

\* the messages of these runs are plain text
SupervisedSends == ClientOutcomes

SupervisedLookups == {"ok", "timeout"}

SupervisedMappings ==
    { <<>>,
      << <<RawInt(555), <<RawStr(<<Sup2>>)>> >> >>,
      << <<RawInt(555), <<RawInt(11), RawInt(12)>> >>,
         <<RawStr(ChannelB), <<RawStr(ChannelC)>> >> >> }

SupervisedInboxes ==
    { <<Update(1, Message(FALSE, TRUE, <<"s">>, FALSE, FALSE, chat))>> : chat \in {555, 777} }

SuperviseInit ==
    /\ raw_mappings \in SupervisedMappings
    /\ mappings = EmptyMap
    /\ keywords = <<>>
    /\ delay = 2
    /\ resolved = EmptyMap /\ rpc = "idle" /\ si = 0 /\ di = 0
    /\ src_id = RawNone /\ dest_ids = <<>> /\ lookups = <<>>
    /\ HtmlIdle
    /\ DeliverIdle
    /\ spc = "connect" /\ handlers = <<>> /\ iters = 0
    /\ exc = NoException /\ sleeping = 0
    /\ cur = Call(0, 0) /\ parked = {}
    /\ inbox \in SupervisedInboxes

SuperviseNext ==
    \/ \E o \in ClientOutcomes : Connect(o)
    \/ NextSource
    \/ \E res \in SupervisedLookups : SourceLookup(res)
    \/ NextDest
    \/ \E res \in SupervisedLookups : DestLookup(res)
    \/ StoreSource
    \/ FinishResolve
    \/ Subscribe
    \/ ResolveRaised
    \/ \E o \in ClientOutcomes : Disconnected(o)
    \/ WakeUp
    \/ Shutdown
    \/ Arrive
    \/ Resume
    \/ NextHandler
    \/ OnMessage
    \/ Lookup
    \/ \E o \in SupervisedSends : Send(o)
    \/ PaceDone
    \/ BackoffDone

SpecSupervise == SuperviseInit /\ [][SuperviseNext]_vars

(***************************************************************************)
(* The listening client: the table is built, the handler is registered and *)
(* start() waits in run_until_disconnected while updates arrive.           *)
(***************************************************************************)
MaxEvents == 2

\* update number id: a plain text message from chat 555
Inbound(id) == Update(id, Message(FALSE, TRUE, <<"s">>, FALSE, FALSE, 555))

DispatchInit ==
    /\ raw_mappings = << <<RawInt(555), <<RawInt(11), RawInt(12)>> >> >>
    /\ mappings = Table(2)
    /\ keywords = <<>>
    /\ delay \in {0, 2}
    /\ resolved = Table(2) /\ rpc = "done" /\ si = 2 /\ di = 3
    /\ src_id = RawInt(555) /\ dest_ids = DestSeq(2) /\ lookups = <<>>
    /\ HtmlIdle
    /\ DeliverIdle
    /\ spc = "listen" /\ handlers = <<{555}>> /\ iters = 1
    /\ exc = NoException /\ sleeping = 0
    /\ cur = Call(0, 0) /\ parked = {}
    /\ inbox \in {[k \in 1..n |-> Inbound(k)] : n \in 1..MaxEvents}

DispatchNext ==
    \/ Arrive
    \/ Resume
    \/ NextHandler
    \/ OnMessage
    \/ Lookup
    \/ \E o \in SupervisedSends : Send(o)
    \/ PaceDone
    \/ BackoffDone

SpecDispatch == DispatchInit /\ [][DispatchNext]_vars

(***************************************************************************)
(* Properties of entities_to_html.                                         *)
(***************************************************************************)
\* a piece of `out` that is markup and not literal text: escaped text never
\* starts with "<"
IsTag(p) == Len(p) > 0 /\ p[1] = "<"
IsCloseTag(p) == Len(p) >= 2 /\ p[1] = "<" /\ p[2] = "/"
IsOpenTag(p) == IsTag(p) /\ ~IsCloseTag(p)
IsLiteral(p) == Len(p) > 0 /\ ~IsTag(p)

RECURSIVE NameFrom(_, _)
NameFrom(p, k) ==
    IF k > Len(p) \/ p[k] \in {" ", ">"} THEN <<>> ELSE <<p[k]>> \o NameFrom(p, k + 1)

\* the element name of a tag: "a" of <a href=...> and of </a>
TagName(p) == IF IsCloseTag(p) THEN NameFrom(p, 3) ELSE NameFrom(p, 2)

\* standard text escaping of the five reserved characters
EscapedForm(c) ==
    IF c = "<" THEN <<"&", "l", "t", ";">>
    ELSE IF c = ">" THEN <<"&", "g", "t", ";">>
    ELSE IF c = "&" THEN <<"&", "a", "m", "p", ";">>
    ELSE IF c = "\"" THEN <<"&", "q", "u", "o", "t", ";">>
    ELSE IF c = "'" THEN <<"&", "#", "x", "2", "7", ";">>
    ELSE <<c>>

RECURSIVE EscapedText(_)
EscapedText(s) == IF s = <<>> THEN <<>> ELSE EscapedForm(Head(s)) \o EscapedText(Tail(s))

RECURSIVE SelectPieces(_, _)
\* the pieces of o that are (tags = TRUE) or are not (tags = FALSE) tags, in order
SelectPieces(o, tags) ==
    IF o = <<>> THEN <<>>
    ELSE (IF IsTag(Head(o)) = tags THEN <<Head(o)>> ELSE <<>>) \o SelectPieces(Tail(o), tags)

\* the text position a piece of `out` is emitted at: the literal characters before it
PositionOf(o, k) == Cardinality({j \in 1..(k - 1) : IsLiteral(o[j])})

SpanInText(e) == e.offset >= 0 /\ e.length >= 0 /\ e.offset + e.length <= Len(text)

WellFormedInput == \A k \in DOMAIN entities : SpanInText(entities[k])

\* C6: on a well-formed input, every opening tag of the output has a closing tag
\* of the same element of its own later in the output: from each opening tag on,
\* the output holds at least as many closing tags as opening tags of that element.
C6_OpenTagsAreClosed ==
    (hpc = "done" /\ WellFormedInput) =>
        \A p \in DOMAIN out :
            IsOpenTag(out[p]) =>
                Cardinality({q \in p..Len(out) :
                                IsOpenTag(out[q]) /\ TagName(out[q]) = TagName(out[p])})
                <= Cardinality({q \in p..Len(out) :
                                IsCloseTag(out[q]) /\ TagName(out[q]) = TagName(out[p])})

C6_Witness ==
    /\ hpc = "done" /\ WellFormedInput
    /\ Len(entities) = 2
    /\ entities[1].cls = "MessageEntityBold" /\ entities[2].cls = "MessageEntityBold"
    /\ entities[1].offset = 0 /\ entities[1].length = 2
    /\ entities[2].offset = 1 /\ entities[2].length = 1
    /\ Len(SelectPieces(out, TRUE)) = 4

\* C7: the output is the join of `out`; without its tags `out` is the input
\* text escaped character by character; with no entities the output is the
\* escaped text.
C7_TextIsEscapedOnce ==
    hpc = "done" =>
        IF entities = <<>>
        THEN html_text = EscapedText(text)
        ELSE /\ html_text = Join(out)
             /\ Join(SelectPieces(out, FALSE)) = EscapedText(text)

C7_Witness ==
    /\ hpc = "done"
    /\ text = <<"<", "&">>
    /\ Len(entities) = 1 /\ entities[1].cls = "MessageEntityTextUrl"
    /\ entities[1].offset = 0 /\ entities[1].length = 1
    /\ Len(SelectPieces(out, TRUE)) = 2

\* C8: for a MessageEntityUrl over [O, O+L) the output holds, at position O, the
\* complete tag <a href="..."> whose href is the (escaped) annotated text, and
\* </a> at position O+L.
C8_UrlAnchorIsComplete ==
    hpc = "done" =>
        \A k \in DOMAIN entities :
            LET e == entities[k] IN
            (e.cls = "MessageEntityUrl" /\ SpanInText(e) /\ e.length > 0) =>
                /\ \E p \in DOMAIN out :
                      /\ PositionOf(out, p) = e.offset
                      /\ out[p] = TagAHref
                                  \o EscapedText(Slice(text, e.offset, e.offset + e.length))
                                  \o TagAHrefClose
                /\ \E p \in DOMAIN out :
                      /\ PositionOf(out, p) = e.offset + e.length
                      /\ out[p] = TagAEnd

RecognisedClasses ==
    {"MessageEntityBold", "MessageEntityItalic", "MessageEntityCode", "MessageEntityPre",
     "MessageEntityTextUrl", "MessageEntityUrl", "MessageEntityMentionName",
     "MessageEntityTextMention", "MessageEntityUnderline", "MessageEntityStrike",
     "MessageEntitySpoiler"}

\* an entity the claim says leaves no trace: an unknown class, or a mention with
\* no user id
IsDropped(e) ==
    \/ e.cls \notin RecognisedClasses
    \/ (e.cls \in {"MessageEntityMentionName", "MessageEntityTextMention"}
        /\ e.user_id = 0 /\ e.user = 0)

RECURSIVE WithoutDropped(_)
WithoutDropped(ents) ==
    IF ents = <<>> THEN <<>>
    ELSE (IF IsDropped(Head(ents)) THEN <<>> ELSE <<Head(ents)>>) \o WithoutDropped(Tail(ents))

\* C9: the output equals the output for the same list without the entities of
\* an unknown class and the mentions without a user id.
C9_DroppedEntitiesLeaveNoTrace ==
    hpc = "done" => html_text = entities_to_html(text, WithoutDropped(entities))

C9_Witness ==
    /\ hpc = "done"
    /\ Len(entities) = 2 /\ Len(text) = 2
    /\ entities[1].cls = "MessageEntityMentionName" /\ entities[1].user_id = 0
    /\ entities[1].offset = 0 /\ entities[1].length = 2
    /\ entities[2].cls = "MessageEntityBold"
    /\ entities[2].offset = 1 /\ entities[2].length = 1
    /\ html_text = EscapedText(<<text[1]>>) \o TagB \o EscapedText(<<text[2]>>) \o TagBEnd

(***************************************************************************)
(* Properties of _resolve_mappings, read off the raw mappings and the      *)
(* outcomes of this run's lookups.                                         *)
(***************************************************************************)
\* an identifier that needs no lookup: an int, or a str of decimal digits with
\* an optional minus sign
IsNumericId(raw) ==
    \/ raw.k = "int"
    \/ /\ raw.k = "str"
       /\ LET body == IF Len(raw.s) > 0 /\ raw.s[1] = "-" THEN Tail(raw.s) ELSE raw.s
          IN Len(body) > 0 /\ \A k \in DOMAIN body : body[k] \in AsciiDigits

NumericIdValue(raw) ==
    IF raw.k = "int" THEN raw.n
    ELSE IF raw.s[1] = "-" THEN 0 - DigitsToNat(Tail(raw.s)) ELSE DigitsToNat(raw.s)

\* a symbolic name, to be looked up
IsSymbolicId(raw) == raw.k = "str" /\ Len(raw.s) > 0 /\ raw.s[1] = "@"

\* the outcome of the lookup made for destination d (0: the source itself) of
\* source s in this run, "none" when no such lookup was made
LookupResult(s, d) ==
    IF \E k \in DOMAIN lookups : lookups[k].s = s /\ lookups[k].d = d
    THEN lookups[CHOOSE k \in DOMAIN lookups : lookups[k].s = s /\ lookups[k].d = d].res
    ELSE "none"

\* source s resolved to a numeric id
SourceResolved(s) ==
    LET raw == raw_mappings[s][1]
    IN IsNumericId(raw) \/ (IsSymbolicId(raw) /\ LookupResult(s, 0) = "ok")

SourceKey(s) ==
    LET raw == raw_mappings[s][1]
    IN IF IsNumericId(raw) THEN NumericIdValue(raw) ELSE Directory(raw.s)

RECURSIVE ResolvedDestsUpTo(_, _)
\* the destinations 1..d of source s that resolved, in declaration order
ResolvedDestsUpTo(s, d) ==
    IF d = 0 THEN <<>>
    ELSE LET raw == raw_mappings[s][2][d]
         IN ResolvedDestsUpTo(s, d - 1)
            \o (IF IsNumericId(raw) THEN <<NumericIdValue(raw)>>
                ELSE IF IsSymbolicId(raw) /\ LookupResult(s, d) = "ok"
                THEN <<Directory(raw.s)>>
                ELSE <<>>)

ResolvedDests(s) == ResolvedDestsUpTo(s, Len(raw_mappings[s][2]))

\* C4: no entry of the routing table is empty, and after a run every entry holds
\* the resolved destinations, in declaration order, of a source that resolved
\* to its key.
C4_EntriesNonEmptyInOrder ==
    /\ \A key \in DOMAIN mappings : mappings[key] # <<>>
    /\ rpc = "done" =>
          \A key \in DOMAIN mappings :
              \E s \in DOMAIN raw_mappings :
                  /\ SourceResolved(s)
                  /\ SourceKey(s) = key
                  /\ mappings[key] = ResolvedDests(s)

C4_Witness ==
    /\ rpc = "done"
    /\ Len(raw_mappings) = 2
    /\ raw_mappings[1] = <<RawStr(ChannelA), <<RawStr(ChannelB), RawStr(ChannelC)>> >>
    /\ raw_mappings[2][2] = <<RawStr(ChannelB)>>
    /\ LookupResult(2, 1) # "ok"
    /\ DOMAIN mappings = {555}
    /\ mappings[555] = <<777, 888>>

\* C5: _resolve_mappings never ends by an exception; after a run, a source is in
\* the table exactly when it resolved and at least one of its destinations
\* did; a source whose lookup failed made no destination lookup.
C5_ResolverAlwaysCompletes ==
    /\ rpc # "raised"
    /\ rpc = "done" =>
          /\ \A key \in DOMAIN mappings :
                \E s \in DOMAIN raw_mappings :
                    SourceResolved(s) /\ SourceKey(s) = key /\ ResolvedDests(s) # <<>>
          /\ \A s \in DOMAIN raw_mappings :
                /\ (SourceResolved(s) /\ ResolvedDests(s) # <<>>) =>
                        SourceKey(s) \in DOMAIN mappings
                /\ LookupResult(s, 0) \in {"timeout", "error"} =>
                        \A k \in DOMAIN lookups : lookups[k].s = s => lookups[k].d = 0

\* the part of C5 about lookup failures alone
C5_LookupFailuresIsolated ==
    rpc = "done" =>
          /\ \A key \in DOMAIN mappings :
                \E s \in DOMAIN raw_mappings :
                    SourceResolved(s) /\ SourceKey(s) = key /\ ResolvedDests(s) # <<>>
          /\ \A s \in DOMAIN raw_mappings :
                /\ (SourceResolved(s) /\ ResolvedDests(s) # <<>>) =>
                        SourceKey(s) \in DOMAIN mappings
                /\ LookupResult(s, 0) \in {"timeout", "error"} =>
                        \A k \in DOMAIN lookups : lookups[k].s = s => lookups[k].d = 0

(***************************************************************************)
(* Properties of _on_message, read off the trace of the pass.              *)
(***************************************************************************)
IsSend(e) == e.ev = "send"
IsFlood(e) == e.ev = "send" /\ e.res = "flood"

NoFloodInPass == \A p \in DOMAIN trace : ~IsFlood(trace[p])

\* C1: once a send to d_i is answered by a rate limit, the pass sends to no
\* destination after d_i.
C1_FloodStopsThePass ==
    \A p, q \in DOMAIN trace :
        (p < q /\ IsFlood(trace[p]) /\ IsSend(trace[q])) => trace[q].idx <= trace[p].idx

\* C2: after a send to D answered by a rate limit of W seconds, a sleep of at
\* least W + 5 comes before any further send and before the pass ends, no other
\* send goes to D, and D is never logged as mirrored in the pass.
C2_FloodSleepsAndSkips ==
    \A p \in DOMAIN trace :
        IsFlood(trace[p]) =>
            LET SleptBefore(q) ==
                    \E r \in (p + 1)..(q - 1) :
                        trace[r].ev = "sleep" /\ trace[r].secs >= trace[p].secs + 5
            IN /\ \A q \in DOMAIN trace : (q > p /\ IsSend(trace[q])) => SleptBefore(q)
               /\ pc = "done" => SleptBefore(Len(trace) + 1)
               /\ \A q \in DOMAIN trace :
                     (q > p /\ IsSend(trace[q])) => trace[q].idx # trace[p].idx
               /\ \A q \in DOMAIN trace :
                     trace[q].ev = "mirrored" => trace[q].idx # trace[p].idx

\* the first step taken for a destination: the send of line 110, 121 or 126, or
\* the conversion of line 120 when it raises
IsAttempt(e) ==
    \/ e.ev = "send" /\ e.kind # "fallback"
    \/ e.ev = "convert_failed"

RECURSIVE AttemptedOf(_)
\* the destinations attempted, in order
AttemptedOf(t) ==
    IF t = <<>> THEN <<>>
    ELSE (IF IsAttempt(Head(t)) THEN <<Head(t).dest>> ELSE <<>>) \o AttemptedOf(Tail(t))

\* C3: a pass without a rate limit cannot stop before Done, and at Done it has
\* attempted every destination of the list exactly once, in list order, whatever
\* failed on the way.
C3_FailuresDoNotStopThePass ==
    /\ pc \in {"send", "fallback", "pace", "backoff"} =>
          (i \in DOMAIN dests /\ ENABLED DeliverNext)
    /\ (pc = "done" /\ NoFloodInPass) =>
          /\ dests = mappings[msg.chat_id]
          /\ AttemptedOf(trace) = dests

C3_Witness ==
    /\ pc = "done" /\ NoFloodInPass
    /\ Len(dests) = 2
    /\ \E p, q \in DOMAIN trace :
          /\ p < q
          /\ IsSend(trace[p]) /\ trace[p].idx = 1 /\ trace[p].res = "forbidden"
          /\ IsSend(trace[q]) /\ trace[q].idx = 2 /\ trace[q].res = "error"

\* two characters equal up to case
SameLetter(a, b) ==
    \/ a = b
    \/ {a, b} \in {{"s", "S"}, {"a", "A"}, {"x", "X"}}

\* k occurs in s, case-insensitively
OccursIgnoringCase(k, s) ==
    \E a \in 0..(Len(s) - Len(k)) :
        \A j \in 1..Len(k) : SameLetter(k[j], s[a + j])

IsBlankBody(m) == ~m.has_message \/ \A k \in DOMAIN m.message : m.message[k] = " "

\* the three rules of the content filter
MustReject(m, kws) ==
    \/ m.action
    \/ IsBlankBody(m) /\ ~m.media
    \/ kws # <<>> /\ ~\E j \in DOMAIN kws : OccursIgnoringCase(kws[j], TextOf(m))

\* C10: a message is rejected exactly when it is a service event, or has a blank
\* body and no media, or matches none of a non-empty keyword list; a rejected
\* message leads to no send, every other message goes on to delivery.
C10_ContentFilter ==
    pc # "idle" =>
        /\ MustReject(msg, keywords) <=> pc = "rejected"
        /\ pc = "rejected" => trace = <<>>
        /\ (~MustReject(msg, keywords) /\ pc = "done") =>
              \E p \in DOMAIN trace : IsSend(trace[p])

C10_Witness ==
    /\ pc = "done"
    /\ keywords = << <<"s", "s">> >>
    /\ msg.message = <<"S", "s">>
    /\ ~msg.media /\ ~msg.action
    /\ \E p \in DOMAIN trace : IsSend(trace[p]) /\ trace[p].res = "ok"

\* a markup send that raised, or a conversion that raised
IsMarkupFailure(e) ==
    \/ e.ev = "send" /\ e.kind = "html" /\ e.res # "ok"
    \/ e.ev = "convert_failed"

IsFallbackSend(e) == e.ev = "send" /\ e.kind = "fallback"

SendsTo(idx) == {p \in DOMAIN trace : IsSend(trace[p]) /\ trace[p].idx = idx}

\* C15: a failed conversion or markup send to a destination is followed at once
\* by one plain-text send to that destination (it is pending while the failure
\* is the last event); a plain-text fallback follows nothing else; after a
\* failed fallback the pass has left the destination; a destination gets at
\* most two sends, and at most one when the message has media or no entities.
C15_FallbackOnceThenMoveOn ==
    /\ \A p \in DOMAIN trace :
          IsMarkupFailure(trace[p]) =>
              IF p = Len(trace)
              THEN pc = "fallback" /\ i = trace[p].idx
              ELSE IsFallbackSend(trace[p + 1]) /\ trace[p + 1].idx = trace[p].idx
    /\ \A q \in DOMAIN trace :
          IsFallbackSend(trace[q]) =>
              /\ q > 1 /\ IsMarkupFailure(trace[q - 1]) /\ trace[q - 1].idx = trace[q].idx
              /\ ~msg.media /\ msg.entities
              /\ \A r \in SendsTo(trace[q].idx) : r <= q
              /\ pc = "fallback" => i # trace[q].idx
              /\ (trace[q].res \notin {"ok", "flood"} /\ q = Len(trace)) =>
                    (IF trace[q].idx = Len(dests) THEN pc = "done" ELSE i = trace[q].idx + 1)
    /\ \A idx \in DOMAIN dests :
          /\ Cardinality(SendsTo(idx)) <= 2
          /\ Cardinality({p \in SendsTo(idx) : IsFallbackSend(trace[p])}) <= 1
          /\ (msg.media \/ ~msg.entities) => Cardinality(SendsTo(idx)) <= 1

C15_Witness ==
    /\ pc = "done" /\ Len(dests) = 2 /\ Len(trace) >= 4
    /\ trace[1].ev = "send" /\ trace[1].kind = "html" /\ trace[1].res = "error"
    /\ IsFallbackSend(trace[2]) /\ trace[2].idx = 1 /\ trace[2].res = "forbidden"
    /\ trace[3].ev = "convert_failed" /\ trace[3].idx = 2
    /\ IsFallbackSend(trace[4]) /\ trace[4].idx = 2 /\ trace[4].res = "ok"

IsPaceSleep(e) == e.ev = "sleep" /\ e.kind = "pace"

\* C16: with delay > 0 every successful send is followed at once by the
\* "Mirrored" line and a pacing sleep of delay seconds, which is over before the
\* next send; a pacing sleep follows nothing but a successful send, so none
\* follows a failed send and none occurs when delay <= 0.
C16_PacingAfterSuccessOnly ==
    /\ \A p \in DOMAIN trace :
          (IsSend(trace[p]) /\ trace[p].res = "ok" /\ delay > 0) =>
              /\ p + 2 <= Len(trace)
              /\ IsPaceSleep(trace[p + 2])
              /\ trace[p + 2].secs = delay /\ trace[p + 2].idx = trace[p].idx
              /\ (p + 2 = Len(trace) /\ pc # "done") =>
                    (pc = "pace" \/ (pc = "send" /\ i = trace[p].idx + 1))
    /\ \A q \in DOMAIN trace :
          IsPaceSleep(trace[q]) =>
              /\ delay > 0
              /\ q > 2
              /\ IsSend(trace[q - 2]) /\ trace[q - 2].res = "ok"
              /\ trace[q - 2].idx = trace[q].idx
              /\ trace[q - 1].ev = "mirrored"
    /\ pc = "pace" => (trace # <<>> /\ IsPaceSleep(trace[Len(trace)]))
    /\ \A p \in DOMAIN trace :
          (IsSend(trace[p]) /\ trace[p].res # "ok" /\ p < Len(trace)) =>
              ~IsPaceSleep(trace[p + 1])
    /\ delay <= 0 => (pc # "pace" /\ \A q \in DOMAIN trace : ~IsPaceSleep(trace[q]))

C16_Witness ==
    /\ pc = "done" /\ delay = 2 /\ Len(dests) = 2
    /\ Len(trace) = 4
    /\ IsSend(trace[1]) /\ trace[1].idx = 1 /\ trace[1].res = "error"
    /\ IsSend(trace[2]) /\ trace[2].idx = 2 /\ trace[2].res = "ok"
    /\ IsPaceSleep(trace[4]) /\ trace[4].idx = 2

\* the raw sources, by position, that resolved to the numeric id key
SourcesOf(key) == {s \in DOMAIN raw_mappings : SourceResolved(s) /\ SourceKey(s) = key}

\* those of them with at least one resolved destination
KeptSourcesOf(key) == {s \in SourcesOf(key) : ResolvedDests(s) # <<>>}

LastOf(S) == CHOOSE s \in S : \A t \in S : t <= s

\* C18: after a run, the entry of every id holds the destination list of the
\* last raw source, in input order, that resolved to that id.
C18_LastSourceWins ==
    rpc = "done" =>
        \A key \in DOMAIN mappings :
            mappings[key] = ResolvedDests(LastOf(SourcesOf(key)))

\* C18, amended: after a run, the entry of every id holds the destination list
\* of the last raw source, in input order, that resolved to that id and has at
\* least one resolved destination; every such id has an entry.
C18_LastKeptSourceWins ==
    rpc = "done" =>
        /\ \A key \in DOMAIN mappings :
              /\ KeptSourcesOf(key) # {}
              /\ mappings[key] = ResolvedDests(LastOf(KeptSourcesOf(key)))
        /\ \A s \in DOMAIN raw_mappings :
              (SourceResolved(s) /\ ResolvedDests(s) # <<>>) => SourceKey(s) \in DOMAIN mappings

C18_Witness ==
    /\ rpc = "done"
    /\ Len(raw_mappings) = 2
    /\ raw_mappings[1] = <<RawStr(ChannelA), <<RawStr(ChannelB), RawStr(ChannelC)>> >>
    /\ raw_mappings[2] = <<RawStr(<<"5", "5", "5">>), <<NumericDest, RawStr(ChannelB)>> >>
    /\ Cardinality(KeptSourcesOf(555)) = 2
    /\ ResolvedDests(1) = <<777, 888>>
    /\ DOMAIN mappings = {555}
    /\ mappings[555] = <<0 - 100123, 777>>

(***************************************************************************)
(* Properties of start() and of the tasks.                                 *)
(***************************************************************************)
\* the chats whose updates make the client call a handler, and so _on_message
TriggeringChats == UNION {handlers[h] : h \in DOMAIN handlers}

\* C12: once an iteration has subscribed or has found the table empty, the chats
\* whose updates trigger message handling are the keys of the routing table;
\* on an empty table the loop sleeps 5 seconds.
C12_SubscribedChatsAreTheTable ==
    /\ spc \in {"listen", "empty_sleep"} => TriggeringChats = DOMAIN mappings
    /\ spc = "empty_sleep" => (DOMAIN mappings = {} /\ sleeping = 5)

\* the handler calls of update e that reached a send
PassesOf(e) == {trace[p].call.h : p \in {q \in DOMAIN trace : trace[q].call.ev = e}}

\* the "Mirrored" lines of update e for entry idx of its destination list
MirrorsOf(e, idx) ==
    {p \in DOMAIN trace :
        trace[p].ev = "mirrored" /\ trace[p].call.ev = e /\ trace[p].idx = idx}

EventsSeen == {trace[p].call.ev : p \in DOMAIN trace}

\* C19: the client has at most one handler; every update starts at most one
\* delivery pass, and every entry of its destination list is mirrored to at most
\* once.
C19_OneHandlerOnePass ==
    /\ Len(handlers) <= 1
    /\ \A e \in EventsSeen :
          /\ Cardinality(PassesOf(e)) <= 1
          /\ \A p \in DOMAIN trace :
                trace[p].call.ev = e => Cardinality(MirrorsOf(e, trace[p].idx)) <= 1

\* the part of C19 about the deliveries alone
C19_NoDuplicateMirror ==
    \A e \in EventsSeen :
        \A p \in DOMAIN trace :
            trace[p].call.ev = e => Cardinality(MirrorsOf(e, trace[p].idx)) <= 1

\* C11: the events of the trace (sends, "Mirrored" lines, sleeps) of one update
\* are not interleaved with those of another: between two events of an update
\* every event is of that update.
C11_UpdatesDoNotInterleave ==
    \A p, r \in DOMAIN trace :
        (p < r /\ trace[p].call.ev = trace[r].call.ev) =>
            \A q \in p..r : trace[q].call.ev = trace[p].call.ev

\* the updates whose handler call has begun and has not returned
Handling ==
    (IF pc \in AwaitPoints \cup {"idle", "accepted"} THEN {cur.ev} ELSE {})
    \cup {t.ev : t \in {u \in parked : u.pc \in AwaitPoints}}

\* the part of C11 about the handler calls: at most one update is being handled
C11_OneUpdateAtATime == Cardinality(Handling) <= 1

\* a step of start() other than the return of run_until_disconnected
LoopStep ==
    \/ \E o \in ClientOutcomes : Connect(o)
    \/ NextSource
    \/ \E res \in SupervisedLookups : SourceLookup(res)
    \/ NextDest
    \/ \E res \in SupervisedLookups : DestLookup(res)
    \/ StoreSource
    \/ FinishResolve
    \/ Subscribe
    \/ ResolveRaised
    \/ WakeUp

PositionsOfStart == {"connect", "resolve", "listen", "stopped"} \cup Sleeps

\* C13, in every state: start() is at a position of its loop, and it has
\* stopped exactly when the shutdown signal has arrived; until then a step of
\* the loop is possible wherever it is (it waits in run_until_disconnected
\* for the disconnect), so no error leaves it stuck; once stopped, no task
\* is left at an await.
C13_LoopPositions ==
    /\ spc \in PositionsOfStart
    /\ spc = "stopped" <=> exc.kind = "cancel"
    /\ (spc \notin {"stopped", "listen"} /\ ~(spc = "connect" /\ iters = MaxIters)) =>
          ENABLED LoopStep
    /\ spc = "listen" => ENABLED Disconnected(Outcome("ok", 0))
    /\ spc = "stopped" =>
          /\ pc \in {"off", "cancelled"}
          /\ parked = {}
          /\ rpc \in {"idle", "done", "raised", "cancelled"}

\* C13, in every step: a sleep of the loop and a return of
\* run_until_disconnected lead back to the connect of line 49 (or into the
\* sleep of the except clause, which does), and after the shutdown signal
\* nothing is done: no connect, no lookup, no send, no sleep.
C13_LoopSteps ==
    /\ spc \in Sleeps => spc' \in {spc, "connect", "stopped"}
    /\ spc = "listen" => spc' \in {"listen", "connect", "stopped"} \cup Sleeps
    /\ spc = "stopped" => UNCHANGED vars

\* C13: the loop of start() has no terminal state but the one the shutdown
\* signal leads to, and after the signal no further step is taken.
C13_OnlyShutdownEndsTheLoop == []C13_LoopPositions /\ [][C13_LoopSteps]_vars

\* the signal arrived in the pacing sleep after the first of two destinations
C13_Witness ==
    /\ spc = "stopped"
    /\ pc = "cancelled"
    /\ Len(dests) = 2 /\ i = 1
    /\ trace # <<>> /\ IsPaceSleep(trace[Len(trace)])
    /\ \A p \in DOMAIN trace : trace[p].idx = 1

\* C14: self.mappings changes only by the assignment of line 195, made by
\* start()'s call of _resolve_mappings once every source has been processed,
\* to the whole table built; a handler call takes its destinations from
\* self.mappings, whatever the rebuild under way holds.
C14_Steps ==
    /\ mappings' # mappings =>
          /\ spc = "resolve" /\ rpc = "source" /\ rpc' = "done"
          /\ si > Len(raw_mappings)
          /\ mappings' = resolved
          /\ \A s \in DOMAIN raw_mappings :
                (SourceResolved(s) /\ ResolvedDests(s) # <<>>) =>
                    SourceKey(s) \in DOMAIN mappings'
    /\ (pc = "accepted" /\ pc' # "accepted" /\ pc' # "cancelled") =>
          /\ mappings' = mappings
          /\ dests' = IF msg.chat_id \in DOMAIN mappings THEN mappings[msg.chat_id] ELSE <<>>

C14_TableIsSwappedWhole == [][C14_Steps]_vars

\* a handler call holds an entry of the published table while the rebuild,
\* suspended on a lookup, has built a part of the next one
C14_Witness ==
    /\ rpc = "src_lookup" /\ si = 2
    /\ DOMAIN mappings = {555, 777}
    /\ DOMAIN resolved = {555}
    /\ pc = "send" /\ i = 1 /\ trace = <<>>
    /\ msg.chat_id = 777 /\ dests = <<888>>

\* C17, in every state: while the exception caught at line 70 is handled,
\* start() sleeps W + 5 seconds for a FloodWaitError of W seconds and 5 seconds
\* for any other exception.
C17_BackoffSleep ==
    /\ exc.kind = "flood" => (spc = "flood_sleep" /\ sleeping = exc.secs + 5)
    /\ exc.kind = "error" => (spc = "error_sleep" /\ sleeping = 5)
    /\ spc \in {"flood_sleep", "error_sleep"} => exc.kind \in {"flood", "error"}

\* C17, in every step: an exception raised by client.start(), by
\* _resolve_mappings or by run_until_disconnected leads to the sleep; from
\* the sleep the loop goes to the connect of line 49 and nowhere else, and no
\* handler is registered on the way.
C17_BackoffSteps ==
    /\ (spc = "resolve" /\ rpc = "raised") => spc' \in {"resolve", "error_sleep", "stopped"}
    /\ spc \in {"flood_sleep", "error_sleep"} =>
          /\ spc' \in {spc, "connect", "stopped"}
          /\ handlers' = handlers
          /\ spc' = spc => sleeping' = sleeping

\* C17: the sleeps of the except clause of start() and the restart after them.
C17_ExceptionsSleepAndRestart == []C17_BackoffSleep /\ [][C17_BackoffSteps]_vars

C17_Witness ==
    /\ spc = "flood_sleep" /\ sleeping = 8
    /\ exc = [kind |-> "flood", secs |-> 3]
    /\ iters = 2 /\ Len(handlers) = 1

====
